---- MODULE Spec2Model ----
(***************************************************************************)
(* Model of the WhatsApp supplier-search bot (src/unnamed/part_000):       *)
(* the /webhook handler with its session store and inquiry map, the        *)
(* search (performSearch) and the inquiry creation and fan-out             *)
(* (performSearchAndFormat, sendInquiryToSupplier).                        *)
(*                                                                         *)
(* Text is a sequence of one-character strings, so that trim, toLowerCase, *)
(* the regular expressions, parseFloat, parseInt, slice, startsWith and    *)
(* includes are computed on the characters as the JavaScript does.         *)
(***************************************************************************)
EXTENDS Integers, Sequences, FiniteSets, TLC

(***************************************************************************)
(* Bounds of the model.                                                    *)
(***************************************************************************)
\* Date.now() takes the values StartClock..MaxClock.
MaxClock == 2
\* Number of records in the vector index in the dialogue specification.
CatalogSize == 3
\* Largest number of records in the vector index in the search specification.
SearchCatalogSize == 11

(***************************************************************************)
(* JavaScript values: undefined, null, NaN, a text or a number.            *)
(***************************************************************************)
Undefined == [t |-> "undefined"]
Null == [t |-> "null"]
NaN == [t |-> "NaN"]
Str(s) == [t |-> "string", v |-> s]
Num(n) == [t |-> "number", v |-> n]
NoMatch == <<"no-match">>
NoSession == [state |-> "none"]

(***************************************************************************)
(* Text helpers.                                                           *)
(***************************************************************************)
UpperLetters == <<"A","B","C","D","E","F","G","H","I","J","K","L","M",
                  "N","O","P","Q","R","S","T","U","V","W","X","Y","Z">>
LowerLetters == <<"a","b","c","d","e","f","g","h","i","j","k","l","m",
                  "n","o","p","q","r","s","t","u","v","w","x","y","z">>
Digits == <<"0","1","2","3","4","5","6","7","8","9">>

DigitSet == {Digits[i] : i \in 1..10}

IsDigit(c) == c \in DigitSet

DigitValues == [c \in DigitSet |-> (CHOOSE i \in 1..10 : Digits[i] = c) - 1]

DigitValue(c) == DigitValues[c]

UpperSet == {UpperLetters[i] : i \in 1..26}

LowerOf == [c \in UpperSet |-> LowerLetters[CHOOSE i \in 1..26 : UpperLetters[i] = c]]

LowerChar(c) == IF c \in UpperSet THEN LowerOf[c] ELSE c

\* String.prototype.toLowerCase
ToLowerCase(s) == [i \in 1..Len(s) |-> LowerChar(s[i])]

\* String.prototype.trim (the only white space of the inputs is the blank)
RECURSIVE TrimLeft(_)
TrimLeft(s) == IF s # <<>> /\ Head(s) = " " THEN TrimLeft(Tail(s)) ELSE s

RECURSIVE TrimRight(_)
TrimRight(s) ==
    IF s # <<>> /\ s[Len(s)] = " " THEN TrimRight(SubSeq(s, 1, Len(s) - 1)) ELSE s

Trim(s) == TrimRight(TrimLeft(s))

\* String.prototype.slice(0, n)
Slice0(s, n) == SubSeq(s, 1, IF n < Len(s) THEN n ELSE Len(s))

\* Array.prototype.slice(0, n)
Take(q, n) == SubSeq(q, 1, IF n < Len(q) THEN n ELSE Len(q))

\* String.prototype.startsWith
StartsWith(s, p) == Len(p) <= Len(s) /\ SubSeq(s, 1, Len(p)) = p

\* String.prototype.includes
Includes(s, p) ==
    \E i \in 0..(Len(s) - Len(p)) : SubSeq(s, i + 1, i + Len(p)) = p

\* The longest run of digits at the start of s.
RECURSIVE DigitPrefix(_)
DigitPrefix(s) ==
    IF s # <<>> /\ IsDigit(Head(s)) THEN <<Head(s)>> \o DigitPrefix(Tail(s)) ELSE <<>>

\* The number written by a non-empty sequence of digits.
RECURSIVE DigitsToNumber(_)
DigitsToNumber(d) ==
    IF d = <<>> THEN 0
    ELSE 10 * DigitsToNumber(SubSeq(d, 1, Len(d) - 1)) + DigitValue(d[Len(d)])

\* Number.prototype.toString of a non-negative integer.
RECURSIVE NumberToString(_)
NumberToString(n) ==
    IF n < 10 THEN <<Digits[n + 1]>>
    ELSE NumberToString(n \div 10) \o <<Digits[(n % 10) + 1]>>

\* parseInt(s, 10) and parseFloat(s) on texts without fraction or exponent:
\* white space is skipped, a sign is read, then the longest run of digits;
\* NaN when there is no digit.
ParseNumber(s) ==
    LET t == TrimLeft(s)
        signed == t # <<>> /\ Head(t) \in {"-", "+"}
        body == IF signed THEN Tail(t) ELSE t
        d == DigitPrefix(body)
    IN  IF d = <<>> THEN NaN
        ELSE IF signed /\ Head(t) = "-" THEN Num(0 - DigitsToNumber(d))
        ELSE Num(DigitsToNumber(d))

ParseInt(s) == ParseNumber(s)

ParseFloat(s) == ParseNumber(s)

\* Math.abs
Abs(x) == IF x < 0 THEN 0 - x ELSE x

\* A faulty InquiryIdMatch: the pattern is anchored at the start of the text.
InquiryIdMatchAnchored(s) ==
    IF Len(s) >= 2 /\ s[1] = "#" /\ IsDigit(s[2])
    THEN DigitPrefix(SubSeq(s, 2, Len(s)))
    ELSE NoMatch

\* incomingMessage.match(/#(\d+)/): the digits captured after the first '#'
\* that is followed by a digit, or NoMatch.
InquiryIdMatch(s) ==
    LET starts == {i \in 1..(Len(s) - 1) : s[i] = "#" /\ IsDigit(s[i + 1])}
    IN  IF starts = {} THEN NoMatch
        ELSE LET i == CHOOSE j \in starts : \A k \in starts : j <= k
             IN  DigitPrefix(SubSeq(s, i + 1, Len(s)))

\* A faulty IsSixDigits: digits of any number are a pincode.
IsSixDigitsAnyLength(s) == s # <<>> /\ \A i \in 1..Len(s) : IsDigit(s[i])

\* /^\d{6}$/.test(s)
IsSixDigits(s) == Len(s) = 6 /\ \A i \in 1..Len(s) : IsDigit(s[i])

\* JavaScript truthiness of a value that is undefined, null or a text.
Truthy(v) == v # Undefined /\ v # Null /\ v # Str(<<>>)

(***************************************************************************)
(* The vector index.  Record i of the index has the metadata               *)
(* CatalogRecord(i); its fields are the metadata keys the search reads:    *)
(* 'Product Name', 'Product Category', 'Minimum Order Quantity',           *)
(* 'PIN Code', 'Seller POC Contact Number' and 'Seller Name'.              *)
(***************************************************************************)
ProductNames == << <<"N","a","C","l">>, <<"H","C","l">>, <<"N","a","O","H">> >>
Categories == << <<"A","c","i","d">>, <<"S","a","l","t">> >>
MinimumOrders == <<100, 500, 200, 1000>>
PinCodes == << <<"3","9","0","0","0","1">>, <<"5","6","0","0","0","1">>,
               <<"3","9","0","0","2","0">>, <<"1","1","0","0","0","1">>,
               <<"3","9","0","0","1","3">>, <<"3","8","0","0","0","9">> >>

Cycle(table, i) == table[((i - 1) % Len(table)) + 1]

\* The contact number of record i; every third record, from the second on,
\* has none.
ContactOf(i) == IF i % 3 = 2 THEN Undefined ELSE Str(<<"+92">> \o NumberToString(i))

CatalogRecord(i) ==
    [name |-> Cycle(ProductNames, i),
     category |-> Cycle(Categories, i),
     moq |-> Cycle(MinimumOrders, i),
     pin |-> Cycle(PinCodes, i),
     contact |-> ContactOf(i),
     seller |-> <<"Seller">> \o NumberToString(i)]

MakeCatalog(n) == [i \in 1..n |-> CatalogRecord(i)]

\* The orders in which the index may rank its records for a query vector:
\* by ascending or by descending record number.
Reverse(q) == [i \in 1..Len(q) |-> q[Len(q) + 1 - i]]

Rankings == {"ascending", "descending"}

Ranked(cat, ranking) == IF ranking = "ascending" THEN cat ELSE Reverse(cat)

(***************************************************************************)
(* performSearch                                                           *)
(***************************************************************************)
TopK == 1000
MaxResults == 5
FallbackQuery == <<"c","h","e","m","i","c","a","l","s">>

EmptyData ==
    [product_name |-> Undefined, category |-> Undefined, quantity |-> Undefined,
     pincode |-> Undefined, proximity |-> Undefined]

\* A faulty QueryText: the fallback term is forgotten.
QueryTextNoFallback(data) ==
    IF Truthy(data.product_name) THEN data.product_name.v ELSE <<>>

\* const queryText = product_name || 'chemicals'
QueryText(data) ==
    IF Truthy(data.product_name) THEN data.product_name.v ELSE FallbackQuery

\* The metadata filter: the set of the keys it constrains.
Filters(data) ==
    (IF Truthy(data.category) THEN {"Product Category"} ELSE {})
    \cup (IF data.quantity # Undefined /\ data.quantity # Null
          THEN {"Minimum Order Quantity"} ELSE {})

\* Whether a record passes the filter built from the request.
PassesFilters(m, data) ==
    /\ "Product Category" \in Filters(data) => m.category = data.category.v
    /\ "Minimum Order Quantity" \in Filters(data) => m.moq <= data.quantity.v

\* index.query({vector, topK, includeMetadata, filter}): the topK best ranked
\* records that pass the filter.
QueryIndex(cat, ranking, data) ==
    LET Pass(m) == PassesFilters(m, data)
    IN  Take(SelectSeq(Ranked(cat, ranking), Pass), TopK)

\* A faulty ProductNameFilter: the names are compared as typed.
ProductNameFilterAsTyped(matches, data) ==
    IF Truthy(data.product_name)
    THEN LET Keep(m) == Includes(m.name, data.product_name.v)
         IN  SelectSeq(matches, Keep)
    ELSE matches

\* matches.filter(m => m.metadata['Product Name'].toLowerCase().includes(...))
ProductNameFilter(matches, data) ==
    IF Truthy(data.product_name)
    THEN LET productNameLower == ToLowerCase(data.product_name.v)
             Keep(m) == Includes(ToLowerCase(m.name), productNameLower)
         IN  SelectSeq(matches, Keep)
    ELSE matches

\* A faulty ComparePins: the PIN codes are compared, not their distances.
ComparePinsSigned(a, b, pincode) == ParseInt(a.pin).v - ParseInt(b.pin).v

\* The comparator of the pan-India sort.
ComparePins(a, b, pincode) ==
    LET pinA == ParseInt(a.pin).v
        pinB == ParseInt(b.pin).v
        userPin == ParseInt(pincode).v
    IN  Abs(pinA - userPin) - Abs(pinB - userPin)

\* Array.prototype.sort is stable: an element goes after those that do not
\* compare greater.
RECURSIVE InsertSorted(_, _, _)
InsertSorted(x, sorted, pincode) ==
    IF sorted = <<>> THEN <<x>>
    ELSE IF ComparePins(Head(sorted), x, pincode) <= 0
         THEN <<Head(sorted)>> \o InsertSorted(x, Tail(sorted), pincode)
         ELSE <<x>> \o sorted

RECURSIVE SortByDistance(_, _)
SortByDistance(matches, pincode) ==
    IF matches = <<>> THEN <<>>
    ELSE InsertSorted(matches[Len(matches)],
                      SortByDistance(SubSeq(matches, 1, Len(matches) - 1), pincode),
                      pincode)

\* A faulty SameStateFilter: only the first character is compared.
SameStateFilterOneChar(matches, pincode) ==
    LET pincodePrefix == Slice0(pincode, 1)
        Keep(m) == StartsWith(m.pin, pincodePrefix)
    IN  SelectSeq(matches, Keep)

SameStateFilter(matches, pincode) ==
    LET pincodePrefix == Slice0(pincode, 2)
        Keep(m) == StartsWith(m.pin, pincodePrefix)
    IN  SelectSeq(matches, Keep)

\* A faulty ApplyProximity: the sorted list is not cut to 5.
ApplyProximityUncutSort(matches, data) ==
    IF Truthy(data.pincode) /\ Truthy(data.proximity)
    THEN IF data.proximity.v = <<"s","a","m","e">>
         THEN Take(SameStateFilter(matches, data.pincode.v), MaxResults)
         ELSE IF data.proximity.v = <<"p","a","n">>
         THEN SortByDistance(matches, data.pincode.v)
         ELSE matches
    ELSE Take(matches, MaxResults)

\* The proximity step of performSearch.
ApplyProximity(matches, data) ==
    IF Truthy(data.pincode) /\ Truthy(data.proximity)
    THEN IF data.proximity.v = <<"s","a","m","e">>
         THEN Take(SameStateFilter(matches, data.pincode.v), MaxResults)
         ELSE IF data.proximity.v = <<"p","a","n">>
         THEN Take(SortByDistance(matches, data.pincode.v), MaxResults)
         ELSE matches
    ELSE Take(matches, MaxResults)

\* What performSearch returns when the index answers with `response`.
SearchResult(response, data) ==
    ApplyProximity(ProductNameFilter(response, data), data)

\* What performSearch returns for a request, a catalog and a ranking.
PerformSearch(cat, ranking, data) ==
    SearchResult(QueryIndex(cat, ranking, data), data)

(***************************************************************************)
(* Senders and inbound texts.                                              *)
(***************************************************************************)
Whatsapp == "whatsapp:"

\* req.body.From of the buyer and of the supplier of catalog record 1.
BuyerA == <<Whatsapp, "+91", "1">>
Supplier1 == <<Whatsapp>> \o ContactOf(1).v
BuyerB == <<Whatsapp, "+91", "2">>
Senders == {BuyerA, BuyerB, Supplier1}

\* fromNumber.replace('whatsapp:', ''): the first occurrence is removed.
RECURSIVE StripWhatsapp(_)
StripWhatsapp(from) ==
    IF from = <<>> THEN <<>>
    ELSE IF Head(from) = Whatsapp THEN Tail(from)
    ELSE <<Head(from)>> \o StripWhatsapp(Tail(from))

bHello == <<"H","e","l","l","o">>
bStop == <<"S","T","O","P">>
bNo == <<"N","o">>
bSkip == <<" ","S","k","i","p"," ">>
bNa == <<"N","a">>
bSalt == <<"S","a","l","t">>
b500 == <<"5","0","0">>
b5kg == <<"5","k","g">>
bNegative == <<"-","5">>
bPin == <<"3","9","0","0","1","3">>
bShortPin == <<"3","9","0","0","1">>
bSame == <<"S","a","m","e">>
bPan == <<"p","a","n">>
bYes == <<"Y","e","s">>
bY == <<"y">>

StartClock == 1

\* A supplier's reply quoting inquiry n, and a text whose digits after the
\* marker are the number 1 written with a leading zero.
Quote(n) == <<"R","s","9"," ","#">> \o NumberToString(n) \o <<" ","7">>
bPadded == <<"#","0","1">>
References == {Quote(n) : n \in StartClock..(MaxClock + 1)} \cup {bPadded}

Control == {bHello, bStop, bNo}

\* The free-text answers a buyer gives to the prompt of each dialogue state
\* (well-formed and malformed ones).
Answers(state) ==
    CASE state = "PRODUCT_NAME" -> {bNa, bSkip}
      [] state = "CATEGORY" -> {bSalt, bSkip}
      [] state = "QUANTITY" -> {b500, b5kg, bNegative, bNa, bSkip}
      [] state = "PINCODE" -> {bPin, bShortPin, bSkip}
      [] state = "PROXIMITY" -> {bSame, bPan, bSkip}
      [] state = "END" -> {bYes, bY, bNa}
      [] OTHER -> {bNa}

(***************************************************************************)
(* State.                                                                  *)
(***************************************************************************)
VARIABLES
    sessions,    \* the session store: sender -> session or NoSession
    inquiries,   \* the inquiry map: inquiry id -> inquiry
    now,         \* Date.now()
    catalog,     \* the records of the vector index
    hs,          \* the webhook handlers that await an external call
    last,        \* the last interaction that ended: the message, the session
                 \* the store held for its sender, the response, the sends
    request,     \* search specification: the request given to performSearch
    result,      \* search specification: what performSearch returned
    retry        \* retry specification: the call of retryOperation in progress

vars == <<sessions, inquiries, now, catalog, hs, last, request, result, retry>>

MaxInFlight == 2
Slots == 1..MaxInFlight

IdleHandler ==
    [pc |-> "idle", from |-> <<>>, body |-> <<>>, found |-> NoSession,
     attached |-> FALSE, data |-> EmptyData, matches |-> <<>>, id |-> <<>>,
     sent |-> <<>>]

NoInteraction ==
    [from |-> <<>>, body |-> <<>>, found |-> NoSession, threw |-> FALSE,
     text |-> "none", suffix |-> FALSE, id |-> <<>>, count |-> 0, sent |-> <<>>]

NotSearching == [t |-> "none"]

NotRetrying == [pc |-> "none"]

Init ==
    /\ sessions = [a \in Senders |-> NoSession]
    /\ inquiries = <<>>
    /\ now = StartClock
    /\ catalog = MakeCatalog(CatalogSize)
    /\ hs = [h \in Slots |-> IdleHandler]
    /\ last = NoInteraction
    /\ request = NotSearching
    /\ result = NotSearching
    /\ retry = NotRetrying

(***************************************************************************)
(* The dialogue: the state switch of the webhook, on the session object    *)
(* the handler holds.  The result is that object after the switch, whether *)
(* the session was deleted from the store, the response text, and whether  *)
(* the handler goes on to await performSearchAndFormat.                    *)
(***************************************************************************)
Turn(session, deleted, text, search) ==
    [session |-> session, deleted |-> deleted, text |-> text, search |-> search]

SetField(session, field, value) ==
    [session EXCEPT !.data = [session.data EXCEPT ![field] = value]]

Switch(session, incomingMessage) ==
    LET lowerMessage == ToLowerCase(incomingMessage)
        skip == lowerMessage = <<"s","k","i","p">>
    IN  CASE session.state = "START" ->
               Turn([session EXCEPT !.state = "PRODUCT_NAME"], FALSE, "WELCOME", FALSE)
          [] session.state = "PRODUCT_NAME" ->
               Turn([(IF skip THEN session
                      ELSE SetField(session, "product_name", Str(incomingMessage)))
                     EXCEPT !.state = "CATEGORY"],
                    FALSE, "ASK_CATEGORY", FALSE)
          [] session.state = "CATEGORY" ->
               Turn([(IF skip THEN session
                      ELSE SetField(session, "category", Str(incomingMessage)))
                     EXCEPT !.state = "QUANTITY"],
                    FALSE, "ASK_QUANTITY", FALSE)
          [] session.state = "QUANTITY" ->
               IF skip
               THEN Turn([SetField(session, "quantity", Null) EXCEPT !.state = "PINCODE"],
                         FALSE, "ASK_PINCODE", FALSE)
               ELSE LET quantity == ParseFloat(incomingMessage)
                    IN  IF quantity # NaN /\ quantity.v >= 0
                        THEN Turn([SetField(session, "quantity", quantity)
                                   EXCEPT !.state = "PINCODE"],
                                  FALSE, "ASK_PINCODE", FALSE)
                        ELSE Turn(session, FALSE, "BAD_QUANTITY", FALSE)
          [] session.state = "PINCODE" ->
               IF skip
               THEN Turn(SetField(session, "pincode", Null), FALSE, "SEARCH", TRUE)
               ELSE IF IsSixDigits(incomingMessage)
               THEN Turn([SetField(session, "pincode", Str(incomingMessage))
                          EXCEPT !.state = "PROXIMITY"],
                         FALSE, "ASK_PROXIMITY", FALSE)
               ELSE Turn(session, FALSE, "BAD_PINCODE", FALSE)
          [] session.state = "PROXIMITY" ->
               IF lowerMessage = <<"s","a","m","e">> \/ lowerMessage = <<"p","a","n">>
               THEN Turn(SetField(session, "proximity", Str(lowerMessage)),
                         FALSE, "SEARCH", TRUE)
               ELSE Turn(session, FALSE, "BAD_PROXIMITY", FALSE)
          [] session.state = "END" ->
               IF lowerMessage = <<"y","e","s">> \/ lowerMessage = <<"y">>
               THEN Turn([state |-> "START", data |-> EmptyData], FALSE, "RESTART", FALSE)
               ELSE Turn(session, TRUE, "FAREWELL", FALSE)
          [] OTHER -> Turn(session, TRUE, "ERROR", FALSE)

\* A faulty IsTermination: the text is compared as it was typed.
IsTerminationAsTyped(incomingMessage) ==
    incomingMessage = <<"n","o">> \/ incomingMessage = <<"s","t","o","p">>

\* 'no' and 'stop' are checked before the switch.
IsTermination(incomingMessage) ==
    LET lowerMessage == ToLowerCase(incomingMessage)
    IN  lowerMessage = <<"n","o">> \/ lowerMessage = <<"s","t","o","p">>

\* A faulty IsGreeting: the text is compared as it was typed.
IsGreetingAsTyped(incomingMessage) == incomingMessage = <<"h","e","l","l","o">>

\* The session object the handler works on: a new one when the sender has
\* none or greets.
IsGreeting(incomingMessage) == ToLowerCase(incomingMessage) = <<"h","e","l","l","o">>

\* A faulty NewSession: the session is created in a state the switch has
\* no case for.
NewSessionUnnamed == [state |-> "NEW", data |-> EmptyData]

NewSession == [state |-> "START", data |-> EmptyData]

CreatesSession(store, from, incomingMessage) ==
    store[from] = NoSession \/ IsGreeting(incomingMessage)

DialogueTurn(store, from, incomingMessage) ==
    LET session == IF CreatesSession(store, from, incomingMessage)
                   THEN NewSession ELSE store[from]
    IN  IF IsTermination(incomingMessage)
        THEN Turn(session, TRUE, "TERMINATED", FALSE)
        ELSE Switch(session, incomingMessage)

\* if (session.state === 'END' && lowerMessage !== 'no' && lowerMessage !== 'stop')
SearchAgainSuffix(session, incomingMessage) ==
    session.state = "END" /\ ~IsTermination(incomingMessage)

(***************************************************************************)
(* The webhook handler.  A handler runs without interruption up to its     *)
(* next await; each action below is one such run.                          *)
(***************************************************************************)
Interaction(h, threw, text, suffix, id, count, sent) ==
    [from |-> h.from, body |-> h.body, found |-> h.found, threw |-> threw,
     text |-> text, suffix |-> suffix, id |-> id, count |-> count, sent |-> sent]

FreeSlot == CHOOSE k \in Slots : hs[k].pc = "idle" /\ \A j \in Slots : hs[j].pc = "idle" => k <= j

\* The handlers that hold the session object of `from` lose it when the
\* store entry is replaced or deleted.
Detach(handlers, from) ==
    [k \in Slots |-> IF handlers[k].from = from
                     THEN [handlers[k] EXCEPT !.attached = FALSE] ELSE handlers[k]]

\* suppliers.find(s => s.number === supplierNumber)
FindSupplier(suppliers, supplierNumber) ==
    LET found == {i \in 1..Len(suppliers) : suppliers[i].number = Str(supplierNumber)}
    IN  IF found = {} THEN Undefined
        ELSE suppliers[CHOOSE i \in found : \A j \in found : i <= j]

\* A faulty SupplierResponse: an inquiry is removed from the map once a reply
\* to it is routed to its buyer.
SupplierResponseConsuming(from, incomingMessage, inquiryId) ==
    LET h == [IdleHandler EXCEPT !.from = from, !.body = incomingMessage,
                                 !.found = sessions[from], !.id = inquiryId]
    IN  /\ UNCHANGED sessions
        /\ IF inquiryId \in DOMAIN inquiries
           THEN LET supplierNumber == StripWhatsapp(from)
                    supplier == FindSupplier(inquiries[inquiryId].suppliers, supplierNumber)
                IN  IF supplier # Undefined
                    THEN /\ hs' = [hs EXCEPT ![FreeSlot] =
                                     [h EXCEPT !.pc = "forward",
                                               !.sent = << [to |-> inquiries[inquiryId].user,
                                                            status |-> "pending"] >>]]
                         /\ inquiries' = [x \in DOMAIN inquiries \ {inquiryId} |-> inquiries[x]]
                         /\ UNCHANGED last
                    ELSE /\ last' = Interaction(h, FALSE, "NOT_PARTY", FALSE, inquiryId, 0, <<>>)
                         /\ UNCHANGED <<hs, inquiries>>
           ELSE /\ last' = Interaction(h, FALSE, "INQUIRY_NOT_FOUND", FALSE, inquiryId, 0, <<>>)
                /\ UNCHANGED <<hs, inquiries>>

\* The supplier-reply branch, up to the await of client.messages.create.
SupplierResponse(from, incomingMessage, inquiryId) ==
    LET h == [IdleHandler EXCEPT !.from = from, !.body = incomingMessage,
                                 !.found = sessions[from], !.id = inquiryId]
    IN  /\ UNCHANGED <<sessions, inquiries>>
        /\ IF inquiryId \in DOMAIN inquiries
           THEN LET supplierNumber == StripWhatsapp(from)
                    supplier == FindSupplier(inquiries[inquiryId].suppliers, supplierNumber)
                IN  IF supplier # Undefined
                    THEN /\ hs' = [hs EXCEPT ![FreeSlot] =
                                     [h EXCEPT !.pc = "forward",
                                               !.sent = << [to |-> inquiries[inquiryId].user,
                                                            status |-> "pending"] >>]]
                         /\ UNCHANGED last
                    ELSE /\ last' = Interaction(h, FALSE, "NOT_PARTY", FALSE, inquiryId, 0, <<>>)
                         /\ UNCHANGED hs
           ELSE /\ last' = Interaction(h, FALSE, "INQUIRY_NOT_FOUND", FALSE, inquiryId, 0, <<>>)
                /\ UNCHANGED hs

\* A faulty UserMessage: 'no' and 'stop' empty the whole session store.
UserMessageClearingStore(from, incomingMessage) ==
    LET created == CreatesSession(sessions, from, incomingMessage)
        turn == DialogueTurn(sessions, from, incomingMessage)
        h == [IdleHandler EXCEPT !.from = from, !.body = incomingMessage,
                                 !.found = sessions[from]]
        others == IF created \/ turn.deleted THEN Detach(hs, from) ELSE hs
    IN  /\ UNCHANGED inquiries
        /\ sessions' = IF turn.deleted THEN [a \in Senders |-> NoSession]
                       ELSE [sessions EXCEPT ![from] = turn.session]
        /\ IF turn.search
           THEN /\ hs' = [others EXCEPT ![FreeSlot] =
                            [h EXCEPT !.pc = "embed", !.attached = TRUE,
                                      !.data = turn.session.data]]
                /\ UNCHANGED last
           ELSE /\ hs' = others
                /\ last' = Interaction(h, FALSE, turn.text,
                                       SearchAgainSuffix(turn.session, incomingMessage),
                                       <<>>, 0, <<>>)

\* The user-message branch, up to the await of performSearchAndFormat or to
\* the response.
UserMessage(from, incomingMessage) ==
    LET created == CreatesSession(sessions, from, incomingMessage)
        turn == DialogueTurn(sessions, from, incomingMessage)
        h == [IdleHandler EXCEPT !.from = from, !.body = incomingMessage,
                                 !.found = sessions[from]]
        others == IF created \/ turn.deleted THEN Detach(hs, from) ELSE hs
    IN  /\ UNCHANGED inquiries
        /\ sessions' = [sessions EXCEPT ![from] =
                          IF turn.deleted THEN NoSession ELSE turn.session]
        /\ IF turn.search
           THEN /\ hs' = [others EXCEPT ![FreeSlot] =
                            [h EXCEPT !.pc = "embed", !.attached = TRUE,
                                      !.data = turn.session.data]]
                /\ UNCHANGED last
           ELSE /\ hs' = others
                /\ last' = Interaction(h, FALSE, turn.text,
                                       SearchAgainSuffix(turn.session, incomingMessage),
                                       <<>>, 0, <<>>)

\* app.post('/webhook'): an inbound message arrives.
Webhook(from, body) ==
    LET incomingMessage == Trim(body)
        inquiryIdMatch == InquiryIdMatch(incomingMessage)
    IN  /\ \E k \in Slots : hs[k].pc = "idle"
        /\ IF inquiryIdMatch # NoMatch
           THEN SupplierResponse(from, incomingMessage, inquiryIdMatch)
           ELSE UserMessage(from, incomingMessage)
        /\ UNCHANGED <<now, catalog, request, result, retry>>

\* A faulty FinishSearch: the handler stores its session object again once
\* the search has returned.
FinishSearchReinserts(k, text, id, count, sent) ==
    LET h == hs[k]
    IN  /\ sessions' = [sessions EXCEPT ![h.from] = [state |-> "END", data |-> h.data]]
        /\ last' = Interaction(h, FALSE, text,
                               SearchAgainSuffix([state |-> "END"], h.body),
                               id, count, sent)
        /\ hs' = [hs EXCEPT ![k] = IdleHandler]

\* The handler's run after performSearchAndFormat has returned `text`:
\* session.state = 'END', the search-again suffix, and the response.
FinishSearch(k, text, id, count, sent) ==
    LET h == hs[k]
    IN  /\ sessions' = IF h.attached
                       THEN [sessions EXCEPT ![h.from].state = "END"] ELSE sessions
        /\ last' = Interaction(h, FALSE, text,
                               SearchAgainSuffix([state |-> "END"], h.body),
                               id, count, sent)
        /\ hs' = [hs EXCEPT ![k] = IdleHandler]

\* await embedder(queryText, ...) returns.
EmbedReturns(k) ==
    /\ hs[k].pc = "embed"
    /\ hs' = [hs EXCEPT ![k].pc = "query"]
    /\ UNCHANGED <<sessions, inquiries, now, catalog, last, request, result, retry>>

\* await embedder(queryText, ...) throws: nothing catches it, so the handler
\* ends without a response.
EmbedThrows(k) ==
    /\ hs[k].pc = "embed"
    /\ last' = Interaction(hs[k], TRUE, "none", FALSE, <<>>, 0, <<>>)
    /\ hs' = [hs EXCEPT ![k] = IdleHandler]
    /\ UNCHANGED <<sessions, inquiries, now, catalog, request, result, retry>>

\* The suppliers stored with the inquiry.
SuppliersOf(matches) ==
    [i \in 1..Len(matches) |-> [number |-> matches[i].contact, name |-> matches[i].seller]]

\* A faulty SupplierNumbers: only the first contact number is kept.
SupplierNumbersFirstOnly(matches) ==
    LET Has(m) == Truthy(m.contact)
        kept == Take(SelectSeq(matches, Has), 1)
    IN  [i \in 1..Len(kept) |-> kept[i].contact.v]

\* matches.map(...).filter(number => number)
SupplierNumbers(matches) ==
    LET Has(m) == Truthy(m.contact)
        kept == SelectSeq(matches, Has)
    IN  [i \in 1..Len(kept) |-> kept[i].contact.v]

\* Date.now().toString()
NewInquiryId == NumberToString(now)

StoreInquiry(map, id, inquiry) ==
    [x \in DOMAIN map \cup {id} |-> IF x = id THEN inquiry ELSE map[x]]

\* performSearchAndFormat from the return of performSearch to the await of
\* Promise.all, or to its return when nothing is sent.
AfterSearch(k, matches) ==
    LET h == hs[k]
        inquiryId == NewInquiryId
        supplierNumbers == SupplierNumbers(matches)
    IN  IF Len(matches) = 0
        THEN /\ FinishSearch(k, "NO_SUPPLIERS", <<>>, 0, <<>>)
             /\ UNCHANGED inquiries
        ELSE /\ inquiries' = StoreInquiry(inquiries, inquiryId,
                                [user |-> h.from,
                                 productName |-> h.data.product_name,
                                 suppliers |-> SuppliersOf(matches)])
             /\ IF Len(supplierNumbers) = 0
                THEN FinishSearch(k, "NO_CONTACTS", <<>>, 0, <<>>)
                ELSE /\ hs' = [hs EXCEPT ![k] =
                                 [h EXCEPT !.pc = "sends", !.matches = matches,
                                           !.id = inquiryId,
                                           !.sent = [i \in 1..Len(supplierNumbers) |->
                                                       [to |-> <<Whatsapp>> \o supplierNumbers[i],
                                                        status |-> "pending"]]]]
                     /\ UNCHANGED <<sessions, last>>

\* await index.query(queryParams) returns the matches.
QueryReturns(k, ranking) ==
    /\ hs[k].pc = "query"
    /\ AfterSearch(k, SearchResult(QueryIndex(catalog, ranking, hs[k].data), hs[k].data))
    /\ UNCHANGED <<now, catalog, request, result, retry>>

\* A faulty QueryThrows: the failure of the query is not caught.
QueryThrowsUncaught(k) ==
    /\ hs[k].pc = "query"
    /\ last' = Interaction(hs[k], TRUE, "none", FALSE, <<>>, 0, <<>>)
    /\ hs' = [hs EXCEPT ![k] = IdleHandler]
    /\ UNCHANGED <<sessions, inquiries, now, catalog, request, result, retry>>

\* await index.query(queryParams) throws: performSearch returns [].
QueryThrows(k) ==
    /\ hs[k].pc = "query"
    /\ AfterSearch(k, <<>>)
    /\ UNCHANGED <<now, catalog, request, result, retry>>

\* One client.messages.create of sendInquiryToSupplier settles; a failure is
\* caught and logged.
SendSettles(k, i, status) ==
    /\ hs[k].pc = "sends"
    /\ i \in 1..Len(hs[k].sent)
    /\ hs[k].sent[i].status = "pending"
    /\ hs' = [hs EXCEPT ![k].sent[i].status = status]
    /\ UNCHANGED <<sessions, inquiries, now, catalog, last, request, result, retry>>

\* A faulty SendsDone: the summary counts the delivered sends.
SendsDoneCountsDelivered(k) ==
    /\ hs[k].pc = "sends"
    /\ \A i \in 1..Len(hs[k].sent) : hs[k].sent[i].status # "pending"
    /\ FinishSearch(k, "SENT", hs[k].id,
                    Cardinality({i \in 1..Len(hs[k].sent) : hs[k].sent[i].status = "sent"}),
                    [i \in 1..Len(hs[k].sent) |-> hs[k].sent[i].to])
    /\ UNCHANGED <<inquiries, now, catalog, request, result, retry>>

\* A faulty SendsDone: the sends are not awaited.
SendsDoneEarly(k) ==
    /\ hs[k].pc = "sends"
    /\ FinishSearch(k, "SENT", hs[k].id, Len(hs[k].sent),
                    [i \in 1..Len(hs[k].sent) |-> hs[k].sent[i].to])
    /\ UNCHANGED <<inquiries, now, catalog, request, result, retry>>

\* await Promise.all(sendPromises) returns.
SendsDone(k) ==
    /\ hs[k].pc = "sends"
    /\ \A i \in 1..Len(hs[k].sent) : hs[k].sent[i].status # "pending"
    /\ FinishSearch(k, "SENT", hs[k].id, Len(hs[k].sent),
                    [i \in 1..Len(hs[k].sent) |-> hs[k].sent[i].to])
    /\ UNCHANGED <<inquiries, now, catalog, request, result, retry>>

\* await client.messages.create of the forwarded quotation returns.
ForwardReturns(k) ==
    /\ hs[k].pc = "forward"
    /\ last' = Interaction(hs[k], FALSE, "FORWARDED", FALSE, hs[k].id, 0,
                           <<hs[k].sent[1].to>>)
    /\ hs' = [hs EXCEPT ![k] = IdleHandler]
    /\ UNCHANGED <<sessions, inquiries, now, catalog, request, result, retry>>

\* await client.messages.create of the forwarded quotation throws: nothing
\* catches it, so the handler ends without a response.
ForwardThrows(k) ==
    /\ hs[k].pc = "forward"
    /\ last' = Interaction(hs[k], TRUE, "none", FALSE, hs[k].id, 0, <<>>)
    /\ hs' = [hs EXCEPT ![k] = IdleHandler]
    /\ UNCHANGED <<sessions, inquiries, now, catalog, request, result, retry>>

\* The clock advances.
Tick ==
    /\ now < MaxClock
    /\ now' = now + 1
    /\ UNCHANGED <<sessions, inquiries, catalog, hs, last, request, result, retry>>

(***************************************************************************)
(* Specification of the dialogue: the messages are handled one after the   *)
(* other; buyer A answers the prompt of its session's state with           *)
(* well-formed and malformed texts, and the supplier of record 1 replies   *)
(* to the first inquiry.                                                   *)
(***************************************************************************)
Inputs(from) ==
    IF from = BuyerA
    THEN Control \cup Answers(sessions[from].state) \cup {Quote(StartClock)}
    ELSE IF from = Supplier1 THEN {Quote(StartClock)}
    ELSE {}

NoneInFlight == \A k \in Slots : hs[k].pc = "idle"

Receive == \E from \in Senders : \E body \in Inputs(from) :
    NoneInFlight /\ Webhook(from, body)

EmbedDone == \E k \in Slots : EmbedReturns(k)

EmbedFail == \E k \in Slots : EmbedThrows(k)

QueryDone == \E k \in Slots : \E ranking \in Rankings : QueryReturns(k, ranking)

QueryFail == \E k \in Slots : QueryThrows(k)

SendDone == \E k \in Slots : \E i \in 1..MaxResults : SendSettles(k, i, "sent")

SendFail == \E k \in Slots : \E i \in 1..MaxResults : SendSettles(k, i, "failed")

FanOutDone == \E k \in Slots : SendsDone(k)

ForwardDone == \E k \in Slots : ForwardReturns(k)

ForwardFail == \E k \in Slots : ForwardThrows(k)

Next ==
    \/ Receive
    \/ EmbedDone
    \/ EmbedFail
    \/ QueryDone
    \/ QueryFail
    \/ SendDone
    \/ SendFail
    \/ FanOutDone
    \/ ForwardDone
    \/ ForwardFail
    \/ Tick

Spec == Init /\ [][Next]_vars

(***************************************************************************)
(* Specification of the inquiry broker: two buyers run short dialogues     *)
(* (skipping most questions) and quote the first inquiry number, and the   *)
(* supplier of record 1 quotes stored and unknown inquiry numbers.         *)
(***************************************************************************)
BrokerAnswers(from, state) ==
    CASE state = "PRODUCT_NAME" -> IF from = BuyerB THEN {bNa} ELSE {bSkip}
      [] state = "CATEGORY" -> IF from = BuyerA THEN {bSalt, bSkip} ELSE {bSkip}
      [] state = "QUANTITY" -> {bSkip}
      [] state = "PINCODE" -> IF from = BuyerB THEN {bPin} ELSE {bSkip}
      [] state = "PROXIMITY" -> {bSame}
      [] OTHER -> {}

BrokerInputs(from) ==
    IF from = Supplier1 THEN References
    ELSE {bHello, Quote(StartClock)} \cup BrokerAnswers(from, sessions[from].state)

BrokerReceive == \E from \in Senders : \E body \in BrokerInputs(from) :
    NoneInFlight /\ Webhook(from, body)

BrokerNext ==
    \/ BrokerReceive
    \/ EmbedDone
    \/ EmbedFail
    \/ QueryDone
    \/ QueryFail
    \/ SendDone
    \/ SendFail
    \/ FanOutDone
    \/ ForwardDone
    \/ ForwardFail
    \/ Tick

BrokerSpec == Init /\ [][BrokerNext]_vars

(***************************************************************************)
(* Specification of the search: performSearch applied to a request the     *)
(* dialogue can build, over an index of 0..SearchCatalogSize records.      *)
(***************************************************************************)
bAcid == <<"A","c","i","d">>
bCl == <<"c","L">>
bFarPin == <<"1","1","0","0","0","5">>

Requests ==
    {[product_name |-> p, category |-> c, quantity |-> q,
      pincode |-> l[1], proximity |-> l[2]] :
        p \in {Undefined, Str(bNa), Str(bCl)},
        c \in {Undefined, Str(bAcid), Str(bSalt)},
        q \in {Null, Num(0), Num(200), Num(500)},
        l \in {<<Null, Undefined>>} \cup
              ({Str(bPin), Str(bFarPin)} \X {Str(<<"s","a","m","e">>), Str(<<"p","a","n">>)})}

SearchInit ==
    /\ sessions = [a \in Senders |-> NoSession]
    /\ inquiries = <<>>
    /\ now = StartClock
    /\ catalog \in {MakeCatalog(n) : n \in 0..SearchCatalogSize}
    /\ hs = [h \in Slots |-> IdleHandler]
    /\ last = NoInteraction
    /\ request \in {[t |-> "request", data |-> d] : d \in Requests}
    /\ result = NotSearching
    /\ retry = NotRetrying

\* What performSearch did: the text it embedded, the filter and the response
\* of the index query, and the matches it returned.
Searched(outcome, ranking, response, matches) ==
    [t |-> outcome, queryText |-> QueryText(request.data),
     filters |-> Filters(request.data), ranking |-> ranking,
     response |-> response, matches |-> matches]

\* The embedder throws: performSearch throws.
SearchEmbedThrows ==
    /\ result = NotSearching
    /\ result' = [t |-> "threw", queryText |-> QueryText(request.data)]
    /\ UNCHANGED <<sessions, inquiries, now, catalog, hs, last, request, retry>>

\* The index query throws: performSearch returns the empty list.
SearchQueryThrows ==
    /\ result = NotSearching
    /\ result' = Searched("index-failed", "none", <<>>, <<>>)
    /\ UNCHANGED <<sessions, inquiries, now, catalog, hs, last, request, retry>>

\* The index answers.
SearchReturns ==
    /\ result = NotSearching
    /\ \E ranking \in Rankings :
         LET response == QueryIndex(catalog, ranking, request.data)
         IN  result' = Searched("returned", ranking, response,
                                SearchResult(response, request.data))
    /\ UNCHANGED <<sessions, inquiries, now, catalog, hs, last, request, retry>>

SearchNext ==
    \/ SearchEmbedThrows
    \/ SearchQueryThrows
    \/ SearchReturns

SearchSpec == SearchInit /\ [][SearchNext]_vars

(***************************************************************************)
(* Specification of retryOperation of the migration script: one call, with  *)
(* maxAttempts in 0..MaxAttemptsBound, of an operation that resolves or     *)
(* rejects with an error whose message is one of ErrorMessages.             *)
(***************************************************************************)
MaxAttemptsBound == 3

BaseDelays == {0, 1000}

mTimeout == <<"t","i","m","e","o","u","t">>
m404 == <<"H","T","T","P"," ","4","0","4">>
mNotFound == <<"i","n","d","e","x"," ","n","o","t"," ","f","o","u","n","d">>
mNotFoundCapital == <<"I","n","d","e","x"," ","n","o","t"," ","f","o","u","n","d">>
m40 == <<"4","0"," ","4">>
ErrorMessages == {mTimeout, m404, mNotFound, mNotFoundCapital, m40, <<>>}

OperationResults == {Str(<<"s","t","a","t","s">>), Undefined}

RECURSIVE Pow2(_)
Pow2(n) == IF n <= 0 THEN 1 ELSE 2 * Pow2(n - 1)

\* A faulty IsRetryable: only a 404 is not retried.
IsRetryable404Only(message) == ~Includes(message, <<"4","0","4">>)

\* !error.message.includes('404') && !error.message.includes('index not found')
IsRetryable(message) ==
    ~Includes(message, <<"4","0","4">>) /\ ~Includes(message, mNotFound)

RetryInit ==
    /\ sessions = [a \in Senders |-> NoSession]
    /\ inquiries = <<>>
    /\ now = StartClock
    /\ catalog = MakeCatalog(CatalogSize)
    /\ hs = [h \in Slots |-> IdleHandler]
    /\ last = NoInteraction
    /\ request = NotSearching
    /\ result = NotSearching
    /\ retry \in {[pc |-> "called", maxAttempts |-> n, baseDelayMs |-> d,
                   attempt |-> 0, calls |-> 0, log |-> <<>>, delays |-> <<>>,
                   outcome |-> [t |-> "none"]] :
                     n \in 0..MaxAttemptsBound, d \in BaseDelays}

\* The test of the for loop with the loop variable at `attempt`: the body
\* invokes the operation and awaits it; past the loop the function returns
\* undefined.
LoopTest(r, attempt) ==
    IF attempt <= r.maxAttempts
    THEN [r EXCEPT !.pc = "operation", !.attempt = attempt, !.calls = @ + 1]
    ELSE [r EXCEPT !.pc = "done", !.attempt = attempt,
                   !.outcome = [t |-> "returned", v |-> Undefined]]

\* retryOperation is called: attempt = 1.
RetryCalled ==
    /\ retry.pc = "called"
    /\ retry' = LoopTest(retry, 1)
    /\ UNCHANGED <<sessions, inquiries, now, catalog, hs, last, request, result>>

\* await operation() resolves: return result.
OperationResolves ==
    /\ retry.pc = "operation"
    /\ \E v \in OperationResults :
         retry' = [retry EXCEPT !.pc = "done",
                                !.log = Append(@, [t |-> "resolved", v |-> v]),
                                !.outcome = [t |-> "returned", v |-> v]]
    /\ UNCHANGED <<sessions, inquiries, now, catalog, hs, last, request, result>>

\* await operation() rejects: the catch block, up to the throw or to the
\* await of the timer.
OperationRejects ==
    /\ retry.pc = "operation"
    /\ \E message \in ErrorMessages :
         LET isRetryable == IsRetryable(message)
             logged == Append(retry.log, [t |-> "rejected", v |-> message])
         IN  IF retry.attempt = retry.maxAttempts \/ ~isRetryable
             THEN retry' = [retry EXCEPT !.pc = "done", !.log = logged,
                                         !.outcome = [t |-> "threw", v |-> message]]
             ELSE retry' = [retry EXCEPT !.pc = "delay", !.log = logged,
                                         !.delays = Append(@, retry.baseDelayMs
                                                              * Pow2(retry.attempt - 1))]
    /\ UNCHANGED <<sessions, inquiries, now, catalog, hs, last, request, result>>

\* The timer fires: attempt++ and the test of the loop.
TimerFires ==
    /\ retry.pc = "delay"
    /\ retry' = LoopTest(retry, retry.attempt + 1)
    /\ UNCHANGED <<sessions, inquiries, now, catalog, hs, last, request, result>>

RetryNext ==
    \/ RetryCalled
    \/ OperationResolves
    \/ OperationRejects
    \/ TimerFires

RetrySpec == RetryInit /\ [][RetryNext]_vars

(***************************************************************************)
(* The concurrent specification: a message is received while the handler   *)
(* of an earlier one awaits the embedder, the index, the fan-out or the     *)
(* forward.  Express starts a handler for each request as it arrives, and   *)
(* every await gives the event loop to the other handlers.                 *)
(***************************************************************************)
ConcurrentAnswers(state) ==
    CASE state = "PRODUCT_NAME" -> {bCl}
      [] state = "PINCODE" -> {bPin}
      [] state = "PROXIMITY" -> {bPan}
      [] state = "END" -> {bYes}
      [] OTHER -> {bSkip}

ConcurrentInputs(from) ==
    IF from = BuyerA
    THEN {bHello, bStop} \cup ConcurrentAnswers(sessions[from].state)
    ELSE IF from = Supplier1 THEN {Quote(StartClock)}
    ELSE {}

ConcurrentReceive == \E from \in Senders : \E body \in ConcurrentInputs(from) :
    Webhook(from, body)

ConcurrentNext ==
    \/ ConcurrentReceive
    \/ EmbedDone
    \/ EmbedFail
    \/ QueryDone
    \/ QueryFail
    \/ SendDone
    \/ SendFail
    \/ FanOutDone
    \/ ForwardDone
    \/ ForwardFail
    \/ Tick

ConcurrentSpec == Init /\ [][ConcurrentNext]_vars

(***************************************************************************)
(* The interleaved specification: two buyers and a supplier send messages  *)
(* while handlers of earlier messages, of any of them, are still awaiting. *)
(***************************************************************************)
InterleavedAnswers(from, state) ==
    CASE state = "PRODUCT_NAME" -> IF from = BuyerA THEN {bCl} ELSE {bSkip}
      [] state = "CATEGORY" -> {bSkip}
      [] state = "QUANTITY" -> IF from = BuyerA THEN {bSkip} ELSE {}
      [] state = "PINCODE" -> {bSkip}
      [] OTHER -> {}

InterleavedInputs(from) ==
    IF from = Supplier1 THEN {Quote(StartClock)}
    ELSE IF from = BuyerA THEN {bHello} \cup InterleavedAnswers(from, sessions[from].state)
    ELSE {bHello, bStop} \cup InterleavedAnswers(from, sessions[from].state)

InterleavedReceive == \E from \in Senders : \E body \in InterleavedInputs(from) :
    Webhook(from, body)

InterleavedNext ==
    \/ InterleavedReceive
    \/ EmbedDone
    \/ EmbedFail
    \/ QueryDone
    \/ QueryFail
    \/ SendDone
    \/ SendFail
    \/ FanOutDone
    \/ ForwardDone
    \/ ForwardFail
    \/ Tick

InterleavedSpec == Init /\ [][InterleavedNext]_vars

(***************************************************************************)
(* The dialogue specification with the fan-out running to its end: every   *)
(* client.messages.create of a fan-out settles, and the handler resumes    *)
(* once Promise.all has all of them.                                       *)
(***************************************************************************)
SendSettled(k) ==
    \E i \in 1..MaxResults : SendSettles(k, i, "sent") \/ SendSettles(k, i, "failed")

FairSpec ==
    /\ Spec
    /\ \A k \in Slots : WF_vars(SendSettled(k)) /\ WF_vars(SendsDone(k))

(***************************************************************************)
(* Properties.                                                             *)
(***************************************************************************)
\* The text is the keyword in some letter case.
EqualsIgnoringCase(text, keyword) ==
    /\ Len(text) = Len(keyword)
    /\ \A i \in 1..Len(text) : LowerChar(text[i]) = keyword[i]

kwHello == <<"h","e","l","l","o">>
kwNo == <<"n","o">>
kwStop == <<"s","t","o","p">>
kwSkip == <<"s","k","i","p">>
kwSame == <<"s","a","m","e">>
kwPan == <<"p","a","n">>

IsStopText(text) == EqualsIgnoringCase(text, kwNo) \/ EqualsIgnoringCase(text, kwStop)

\* The text holds the marker '#' immediately followed by a digit.
ContainsCorrelationPattern(text) ==
    \E i \in 1..(Len(text) - 1) : text[i] = "#" /\ text[i + 1] \in DigitSet

IsAllDigits(text) == text # <<>> /\ \A i \in 1..Len(text) : text[i] \in DigitSet

\* The last interaction has ended and nothing has happened since but ticks.
Settled == NoneInFlight /\ last # NoInteraction

\* The last interaction was a dialogue turn of a buyer that had a session in
\* `state`, with a text that is no greeting, no termination and no reference.
TurnIn(state) ==
    /\ Settled
    /\ last.found # NoSession
    /\ last.found.state = state
    /\ ~ContainsCorrelationPattern(last.body)
    /\ ~IsStopText(last.body)
    /\ ~EqualsIgnoringCase(last.body, kwHello)

Skipped == EqualsIgnoringCase(last.body, kwSkip)

SessionAfter == sessions[last.from]

\* C1: every well-formed turn stores its answer in its own field (nothing
\* on 'skip', null for a skipped quantity), leaves the other fields alone and
\* moves on, and a valid PROXIMITY answer brings the session to END with the
\* proximity stored: at END the Request holds exactly the non-skip answers.
WellFormedTurnsReachEnd ==
    /\ (Settled /\ last.found = NoSession /\ ~ContainsCorrelationPattern(last.body)
          /\ ~IsStopText(last.body))
       => SessionAfter = [state |-> "PRODUCT_NAME", data |-> EmptyData]
    /\ TurnIn("PRODUCT_NAME")
       => SessionAfter =
            [state |-> "CATEGORY",
             data |-> [last.found.data EXCEPT !.product_name =
                         IF Skipped THEN Undefined ELSE Str(last.body)]]
    /\ TurnIn("CATEGORY")
       => SessionAfter =
            [state |-> "QUANTITY",
             data |-> [last.found.data EXCEPT !.category =
                         IF Skipped THEN Undefined ELSE Str(last.body)]]
    /\ (TurnIn("QUANTITY") /\ (Skipped \/ IsAllDigits(last.body)))
       => SessionAfter =
            [state |-> "PINCODE",
             data |-> [last.found.data EXCEPT !.quantity =
                         IF Skipped THEN Null ELSE Num(DigitsToNumber(last.body))]]
    /\ (TurnIn("PINCODE") /\ IsAllDigits(last.body) /\ Len(last.body) = 6)
       => SessionAfter =
            [state |-> "PROXIMITY",
             data |-> [last.found.data EXCEPT !.pincode = Str(last.body)]]
    /\ (TurnIn("PINCODE") /\ Skipped)
       => SessionAfter =
            [state |-> "PROXIMITY", data |-> [last.found.data EXCEPT !.pincode = Null]]
    /\ (TurnIn("PROXIMITY") /\ EqualsIgnoringCase(last.body, kwSame))
       => SessionAfter =
            [state |-> "END", data |-> [last.found.data EXCEPT !.proximity = Str(kwSame)]]
    /\ (TurnIn("PROXIMITY") /\ EqualsIgnoringCase(last.body, kwPan))
       => SessionAfter =
            [state |-> "END", data |-> [last.found.data EXCEPT !.proximity = Str(kwPan)]]

\* C1 away from its two failures: the same statement for the interactions
\* that ended with a response and were not a skipped pincode.
WellFormedTurnsReachEndElsewhere ==
    \/ last.threw
    \/ TurnIn("PINCODE") /\ Skipped
    \/ WellFormedTurnsReachEnd

\* C2 as claimed: 'no' or 'stop' in any letter case, in any state and without
\* a session, leaves the buyer without session and answers with the
\* termination text; and any text but a reference from a buyer without
\* session creates a fresh session in PRODUCT_NAME and is answered with the
\* welcome prompt.
StopThenAnyTextStartsAfresh ==
    (Settled /\ ~ContainsCorrelationPattern(last.body)) =>
        /\ IsStopText(last.body) =>
             /\ SessionAfter = NoSession
             /\ last.text = "TERMINATED" /\ ~last.suffix /\ ~last.threw
        /\ last.found = NoSession =>
             /\ SessionAfter = [state |-> "PRODUCT_NAME", data |-> EmptyData]
             /\ last.text = "WELCOME"

\* C2 amended: the same, for a next text that is neither a reference nor
\* itself 'no' or 'stop'.
StopThenOtherTextStartsAfresh ==
    (Settled /\ ~ContainsCorrelationPattern(last.body)) =>
        /\ IsStopText(last.body) =>
             /\ SessionAfter = NoSession
             /\ last.text = "TERMINATED" /\ ~last.suffix /\ ~last.threw
        /\ (last.found = NoSession /\ ~IsStopText(last.body)) =>
             /\ SessionAfter = [state |-> "PRODUCT_NAME", data |-> EmptyData]
             /\ last.text = "WELCOME" /\ ~last.suffix /\ ~last.threw

\* C2 witness: a buyer in QUANTITY has sent 'STOP' (or 'No') and has no
\* session any more.
StoppedInQuantity ==
    /\ Settled
    /\ last.found # NoSession
    /\ last.found.state = "QUANTITY"
    /\ IsStopText(last.body)
    /\ SessionAfter = NoSession
    /\ last.text = "TERMINATED"

\* The sender of the last interaction is one of the inquiry's suppliers.
Contacted(inquiry, from) ==
    \E i \in 1..Len(inquiry.suppliers) :
        inquiry.suppliers[i].number = Str(StripWhatsapp(from))

\* C3: a text quoting a stored inquiry's number from one of its contacted
\* suppliers is answered 'forwarded' and the quotation goes to the buyer of
\* that inquiry; from another address it is answered 'supplier not found' and
\* nothing is forwarded; a number of no stored inquiry is answered 'inquiry
\* not found' and nothing is forwarded.
ReplyRoutedToBuyer ==
    (Settled /\ ContainsCorrelationPattern(last.body)) =>
        LET id == InquiryIdMatch(last.body)
        IN  IF id \notin DOMAIN inquiries
            THEN last.text = "INQUIRY_NOT_FOUND" /\ last.sent = <<>>
            ELSE IF Contacted(inquiries[id], last.from)
            THEN last.text = "FORWARDED" /\ last.sent = <<inquiries[id].user>>
            ELSE last.text = "NOT_PARTY" /\ last.sent = <<>>

\* C3 when the transport does not throw.
ReplyRoutedToBuyerUnlessThrown == last.threw \/ ReplyRoutedToBuyer

BrokerTexts == {"FORWARDED", "NOT_PARTY", "INQUIRY_NOT_FOUND"}

\* C4: a text holding the correlation pattern is handled by the broker
\* whatever the session of its sender: while the quotation is forwarded and
\* after the handler has ended, the sender's store entry is what it was when
\* the text arrived (no session created, state and Request unchanged).
ReferenceLeavesSessionAlone ==
    /\ \A k \in Slots :
         (hs[k].pc # "idle" /\ ContainsCorrelationPattern(hs[k].body))
            => hs[k].pc = "forward" /\ sessions[hs[k].from] = hs[k].found
    /\ (Settled /\ ContainsCorrelationPattern(last.body))
         => /\ sessions[last.from] = last.found
            /\ last.threw \/ last.text \in BrokerTexts

\* C4 witness: a buyer in PROXIMITY has quoted an inquiry number, was
\* answered by the broker and is still in PROXIMITY.
ReferenceSentInProximity ==
    /\ Settled
    /\ ContainsCorrelationPattern(last.body)
    /\ last.found # NoSession
    /\ last.found.state = "PROXIMITY"
    /\ last.text \in BrokerTexts
    /\ sessions[last.from].state = "PROXIMITY"

\* C5: a stored Inquiry is never replaced: every inquiry creation uses an id
\* that is not yet stored.
StoredInquiriesNeverChange ==
    [][\A id \in DOMAIN inquiries :
          id \in DOMAIN inquiries' /\ inquiries'[id] = inquiries[id]]_vars

\* C6: a search that ends without fan-out (no candidate, or none with a
\* contact number) leaves the inquiry map unchanged.
InquiryOnlyWhenContactable ==
    [][(\E k \in Slots : hs[k].pc = "query" /\ hs'[k].pc = "idle")
          => inquiries' = inquiries]_vars

\* performSearch has returned a list (the index answered or failed).
SearchReturned == result.t \in {"returned", "index-failed"}

Min(a, b) == IF a < b THEN a ELSE b

\* The j-th smallest element of a set of numbers.
NthSmallest(set, j) == CHOOSE i \in set : Cardinality({x \in set : x <= i}) = j

\* The candidates the proximity step starts from: the index results that
\* passed the product-name step.
Candidates == ProductNameFilter(result.response, request.data)

\* C7: performSearch returns at most 5 candidates, whatever the request, the
\* index and the branch taken.
AtMostFiveCandidates == SearchReturned => Len(result.matches) <= 5

\* C7 witness: a nationwide search over more than 5 candidates has returned 5.
FiveOfManyNationwide ==
    /\ result.t = "returned"
    /\ request.data.proximity = Str(kwPan)
    /\ Len(Candidates) > 5
    /\ Len(result.matches) = 5

\* C8: under 'same' with a pincode, the result is the first (up to 5)
\* candidates, in the order of the index, among those whose PIN code has the
\* first two characters of the requester's pincode; no other is returned.
SameRegionIsPrefixFiltered ==
    (result.t = "returned" /\ request.data.proximity = Str(kwSame)) =>
        LET pincode == request.data.pincode.v
            eligible == {i \in 1..Len(Candidates) :
                           /\ Candidates[i].pin[1] = pincode[1]
                           /\ Candidates[i].pin[2] = pincode[2]}
            n == Min(5, Cardinality(eligible))
        IN  /\ Len(result.matches) = n
            /\ \A j \in 1..n : result.matches[j] = Candidates[NthSmallest(eligible, j)]
            /\ \A j \in 1..Len(result.matches) :
                 /\ result.matches[j].pin[1] = pincode[1]
                 /\ result.matches[j].pin[2] = pincode[2]

\* C8 witness: requester 390013 against the candidates 390001 and 560001 has
\* got the 390001 record only.
SameRegionExample ==
    /\ result.t = "returned"
    /\ request.data.proximity = Str(kwSame)
    /\ request.data.pincode = Str(<<"3","9","0","0","1","3">>)
    /\ Len(Candidates) = 2
    /\ \E i \in 1..2 : Candidates[i].pin = <<"5","6","0","0","0","1">>
    /\ Len(result.matches) = 1
    /\ result.matches[1].pin = <<"3","9","0","0","0","1">>

\* The numeric distance of a candidate's PIN code from the requester's.
Distance(m) ==
    LET d == DigitsToNumber(m.pin) - DigitsToNumber(request.data.pincode.v)
    IN  IF d < 0 THEN 0 - d ELSE d

InMatches(m) == \E j \in 1..Len(result.matches) : result.matches[j] = m

\* C9: under 'pan' with a pincode, the result is sorted by non-decreasing
\* numeric distance of PIN code from the requester's pincode, and it is made
\* of the (up to 5) candidates of smallest distance.
NationwideIsNearestFirst ==
    (result.t = "returned" /\ request.data.proximity = Str(kwPan)) =>
        /\ Len(result.matches) = Min(5, Len(Candidates))
        /\ \A j, k \in 1..Len(result.matches) :
             j < k => /\ Distance(result.matches[j]) <= Distance(result.matches[k])
                      /\ result.matches[j] # result.matches[k]
        /\ \A j \in 1..Len(result.matches) :
             \E i \in 1..Len(Candidates) : Candidates[i] = result.matches[j]
        /\ \A i \in 1..Len(Candidates) :
             ~InMatches(Candidates[i]) =>
                \A j \in 1..Len(result.matches) :
                    Distance(result.matches[j]) <= Distance(Candidates[i])

\* C9 witness: a nationwide search over more than 5 candidates has returned
\* 5 that the index had not ranked by distance.
NationwideReordered ==
    /\ result.t = "returned"
    /\ request.data.proximity = Str(kwPan)
    /\ Len(Candidates) > 5
    /\ Len(result.matches) = 5
    /\ result.matches # Take(Candidates, 5)
    /\ Distance(result.matches[1]) < Distance(result.matches[5])

\* The Request of a buyer that skipped every question.
AllSkipped ==
    [product_name |-> Undefined, category |-> Undefined, quantity |-> Null,
     pincode |-> Null, proximity |-> Undefined]

\* C10: with every field skipped the search embeds the fallback term, puts
\* no metadata filter, so the index answers with all its n records, and
\* returns the first min(5, n) of them in the order of the index.
AllSkippedIsFirstFive ==
    (result.t = "returned" /\ request.data = AllSkipped) =>
        /\ result.queryText = <<"c","h","e","m","i","c","a","l","s">>
        /\ result.filters = {}
        /\ Len(result.response) = Len(catalog)
        /\ Len(result.matches) = Min(5, Len(result.response))
        /\ \A i \in 1..Len(result.matches) : result.matches[i] = result.response[i]

\* C10 witness: all skipped, the index answered with more than 5 records in descending
\* order and the first 5 of them were returned.
AllSkippedOverSeven ==
    /\ result.t = "returned"
    /\ request.data = AllSkipped
    /\ result.ranking = "descending"
    /\ Len(result.response) > 5
    /\ Len(result.matches) = 5
    /\ result.matches[1] = catalog[Len(catalog)]

\* The handler k is inside performSearchAndFormat.
Searching(k) == hs[k].pc \in {"embed", "query", "sends"}

kwYes == <<"y","e","s">>
kwY == <<"y">>

\* C11: 'skip' in PINCODE is answered with the same-region-or-nationwide
\* question and leaves the session in PROXIMITY with a null pincode, and
\* every search in progress was started by a message read in PROXIMITY.
SkippedPincodeAsksProximity ==
    /\ \A k \in Slots :
         Searching(k) => hs[k].found # NoSession /\ hs[k].found.state = "PROXIMITY"
    /\ (TurnIn("PINCODE") /\ Skipped) =>
         /\ last.text = "ASK_PROXIMITY"
         /\ SessionAfter =
              [state |-> "PROXIMITY", data |-> [last.found.data EXCEPT !.pincode = Null]]

\* The last interaction was 'yes' or 'y' from a buyer whose session was in END.
SaidYesInEnd ==
    /\ Settled
    /\ last.found # NoSession
    /\ last.found.state = "END"
    /\ EqualsIgnoringCase(last.body, kwYes) \/ EqualsIgnoringCase(last.body, kwY)

\* C12: 'yes' or 'y' in END is answered with the product-name prompt and
\* leaves the session in PRODUCT_NAME with an empty Request; the next message
\* of that buyer, read in the state the restart left, is the product-name
\* answer: stored (or left empty on 'skip') and answered with the category
\* prompt.
YesRestartsAtProductName ==
    /\ SaidYesInEnd =>
         /\ last.text = "RESTART" /\ ~last.suffix
         /\ SessionAfter = [state |-> "PRODUCT_NAME", data |-> EmptyData]
    /\ (TurnIn("START") \/ TurnIn("PRODUCT_NAME")) =>
         /\ last.text = "ASK_CATEGORY"
         /\ SessionAfter =
              [state |-> "CATEGORY",
               data |-> [last.found.data EXCEPT !.product_name =
                           IF Skipped THEN Undefined ELSE Str(last.body)]]

SearchTexts == {"SENT", "NO_SUPPLIERS", "NO_CONTACTS"}

\* C13: the search-again suffix is on the reply that ends a search (the
\* session is then in END), and on no other reply: not on the farewell given
\* in END, not on the termination reply.
SuffixOnlyAfterSearch ==
    (Settled /\ ~last.threw) =>
        /\ last.text \in SearchTexts => last.suffix /\ SessionAfter.state = "END"
        /\ last.text \in {"FAREWELL", "TERMINATED"} =>
             ~last.suffix /\ SessionAfter = NoSession
        /\ last.suffix => last.text \in SearchTexts

\* C14: when the embedder fails, the handler still answers, with the 'no
\* suppliers found' reply; no inquiry is stored, nothing is sent and the
\* buyer keeps a session.
EmbedFailureIsNoSuppliers ==
    [][EmbedFail =>
         \E k \in Slots :
            /\ hs[k].pc = "embed" /\ hs'[k].pc = "idle"
            /\ last'.from = hs[k].from /\ last'.body = hs[k].body
            /\ ~last'.threw
            /\ last'.text = "NO_SUPPLIERS"
            /\ last'.sent = <<>>
            /\ inquiries' = inquiries
            /\ sessions'[hs[k].from] # NoSession]_vars

\* C15: when the index query fails, the buyer is answered with the 'no
\* suppliers found' reply, no inquiry is stored, nothing is sent and the
\* session is left in END.
IndexFailureIsNoSuppliers ==
    [][QueryFail =>
         \E k \in Slots :
            /\ hs[k].pc = "query" /\ hs'[k].pc = "idle"
            /\ last'.from = hs[k].from /\ last'.body = hs[k].body
            /\ ~last'.threw
            /\ last'.text = "NO_SUPPLIERS" /\ last'.suffix
            /\ last'.sent = <<>> /\ last'.count = 0
            /\ inquiries' = inquiries
            /\ sessions'[hs[k].from] = [hs[k].found EXCEPT !.state = "END",
                                                           !.data = hs[k].data]]_vars

\* C15 witness: a nationwide search with no product name, category or
\* quantity, which every record of the index matches, was answered with 'no
\* suppliers found' and left the session in END without any inquiry.
UnfilteredSearchFoundNothing ==
    /\ Settled
    /\ last.text = "NO_SUPPLIERS"
    /\ last.found # NoSession
    /\ last.found.state = "PROXIMITY"
    /\ last.found.data.product_name = Undefined
    /\ last.found.data.category = Undefined
    /\ last.found.data.quantity = Null
    /\ EqualsIgnoringCase(last.body, kwPan)
    /\ Len(catalog) > 0
    /\ SessionAfter.state = "END"
    /\ inquiries = <<>>

\* The positions of the candidates that have a contact number.
Contactable(matches) == {i \in 1..Len(matches) : Truthy(matches[i].contact)}

\* The address a candidate's inquiry is sent to.
AddressOf(m) == <<Whatsapp>> \o m.contact.v

SendStatuses == {"pending", "sent", "failed"}

\* The fan-out of handler k addresses each contactable candidate once, in
\* the order of the candidates.
OneSendEach(k) ==
    LET c == Contactable(hs[k].matches)
    IN  /\ Len(hs[k].sent) = Cardinality(c)
        /\ \A j \in 1..Len(hs[k].sent) :
             /\ hs[k].sent[j].to = AddressOf(hs[k].matches[NthSmallest(c, j)])
             /\ hs[k].sent[j].status \in SendStatuses

\* C16: the fan-out of a search makes one send for each returned candidate
\* that has a contact number; while the fan-out is awaited no send is added,
\* dropped or redirected, and a send that has settled, sent or failed, stays
\* as it settled whatever the other sends do.
OneAttemptPerContactableCandidate ==
    /\ [](\A k \in Slots : hs[k].pc = "sends" => OneSendEach(k))
    /\ [][\A k \in Slots :
            (hs[k].pc = "sends" /\ hs'[k].pc = "sends") =>
               /\ Len(hs'[k].sent) = Len(hs[k].sent)
               /\ \A i \in 1..Len(hs[k].sent) :
                    /\ hs'[k].sent[i].to = hs[k].sent[i].to
                    /\ hs[k].sent[i].status # "pending"
                         => hs'[k].sent[i].status = hs[k].sent[i].status]_vars
    /\ [][\A k \in Slots :
            (hs[k].pc = "sends" /\ hs'[k].pc = "idle") =>
               /\ \A i \in 1..Len(hs[k].sent) : hs[k].sent[i].status # "pending"
               /\ last'.sent = [i \in 1..Len(hs[k].sent) |-> hs[k].sent[i].to]]_vars

\* C16 witness: of two sends of one fan-out the first has failed and the
\* second was delivered.
FirstSendFailedSecondSent ==
    \E k \in Slots :
        /\ hs[k].pc = "sends"
        /\ Len(hs[k].sent) = 2
        /\ Len(hs[k].matches) = 3
        /\ hs[k].sent[1].status = "failed"
        /\ hs[k].sent[2].status = "sent"

\* C17: the handler leaves the fan-out only when every send of it has
\* settled, and then with the summary reply for that message; the summary
\* reply is produced by no other step; and a fan-out in progress always
\* leads to that reply, whichever sends fail.
ReplyAfterAllSendsSettle ==
    /\ [][\A k \in Slots :
            (hs[k].pc = "sends" /\ hs'[k].pc # "sends") =>
               /\ \A i \in 1..Len(hs[k].sent) : hs[k].sent[i].status \in {"sent", "failed"}
               /\ hs'[k].pc = "idle"
               /\ last'.from = hs[k].from /\ last'.body = hs[k].body
               /\ last'.text = "SENT" /\ last'.id = hs[k].id /\ ~last'.threw]_vars
    /\ [][(last' # last /\ last'.text = "SENT") =>
            \E k \in Slots : hs[k].pc = "sends" /\ hs'[k].pc = "idle"]_vars
    /\ \A k \in Slots :
         (hs[k].pc = "sends") ~> (hs[k].pc = "idle" /\ last.text = "SENT")

\* C17 witness: the summary reply of a fan-out of two sends has been given.
SummaryAfterTwoSends ==
    /\ Settled
    /\ last.text = "SENT"
    /\ Len(last.sent) = 2
    /\ last.id \in DOMAIN inquiries

\* The number of stored suppliers that have a contact number.
WithNumber(suppliers) ==
    Cardinality({i \in 1..Len(suppliers) : Truthy(suppliers[i].number)})

IsNonNegativeNumber(text) ==
    \/ IsAllDigits(text)
    \/ text # <<>> /\ Head(text) = "+" /\ IsAllDigits(Tail(text))

BadAnswerTexts == {"BAD_QUANTITY", "BAD_PINCODE", "BAD_PROXIMITY"}

\* The last turn was answered with the prompt `text` and left the session
\* as it was.
Reprompted(text) ==
    /\ last.text = text /\ ~last.threw /\ ~last.suffix
    /\ last.id = <<>> /\ last.sent = <<>>
    /\ SessionAfter = last.found

\* C19: in QUANTITY a text that is neither 'skip' nor a non-negative number,
\* in PINCODE a text that is neither 'skip' nor six digits, in PROXIMITY a
\* text that is neither 'same' nor 'pan' is answered with the prompt of that
\* state and leaves state and Request as they were; the step that gives such
\* an answer starts no search and stores no inquiry.
MalformedAnswerReprompts ==
    /\ [](/\ (TurnIn("QUANTITY") /\ ~Skipped /\ ~IsNonNegativeNumber(last.body))
               => Reprompted("BAD_QUANTITY")
          /\ (TurnIn("PINCODE") /\ ~Skipped
                /\ ~(IsAllDigits(last.body) /\ Len(last.body) = 6))
               => Reprompted("BAD_PINCODE")
          /\ (TurnIn("PROXIMITY") /\ ~EqualsIgnoringCase(last.body, kwSame)
                /\ ~EqualsIgnoringCase(last.body, kwPan))
               => Reprompted("BAD_PROXIMITY"))
    /\ [][(last' # last /\ last'.text \in BadAnswerTexts) =>
             /\ inquiries' = inquiries
             /\ hs' = hs]_vars

\* C20: the messages of one buyer are handled one at a time in effect.  No
\* order of handling two messages of one buyer one after the other has both
\* of them search, since the first search leaves the session in END; so two
\* handlers of one buyer never both hold a fan-out, each with its stored
\* inquiry and its sends, for the one intake that buyer completed.
OneFanOutPerIntake ==
    \A k, j \in Slots :
        (k # j /\ hs[k].from = hs[j].from) =>
            ~(hs[k].pc = "sends" /\ hs[j].pc = "sends")

\* C21: when the forward of a supplier's reply fails, the handler still
\* ends with an answer to the supplier and no error leaves it, and the
\* inquiry map and the sessions are as they were.
ForwardFailureIsAnswered ==
    [][ForwardFail =>
         \E k \in Slots :
            /\ hs[k].pc = "forward" /\ hs'[k].pc = "idle"
            /\ last'.from = hs[k].from /\ last'.body = hs[k].body
            /\ ~last'.threw
            /\ last'.text # "none"
            /\ inquiries' = inquiries
            /\ sessions' = sessions]_vars

DialogueStates == {"START", "PRODUCT_NAME", "CATEGORY", "QUANTITY", "PINCODE", "PROXIMITY", "END"}

\* C22: the store holds for each address no session or one session, and
\* 'hello' in any letter case, whatever session its sender had, is answered
\* with the welcome prompt and leaves the sender in PRODUCT_NAME with an
\* empty Request.
GreetingOverwritesSession ==
    /\ \A a \in DOMAIN sessions :
         sessions[a] = NoSession \/ DOMAIN sessions[a] = {"state", "data"}
    /\ (Settled /\ EqualsIgnoringCase(last.body, kwHello)) =>
         /\ last.text = "WELCOME" /\ ~last.suffix /\ ~last.threw
         /\ SessionAfter = [state |-> "PRODUCT_NAME", data |-> EmptyData]

\* C22 witness: a buyer in PROXIMITY, with a product name and a pincode in
\* the draft, has greeted and is in PRODUCT_NAME with an empty Request.
GreetedInProximity ==
    /\ Settled
    /\ EqualsIgnoringCase(last.body, kwHello)
    /\ last.found # NoSession
    /\ last.found.state = "PROXIMITY"
    /\ last.found.data.product_name # Undefined
    /\ last.found.data.pincode # Undefined
    /\ SessionAfter = [state |-> "PRODUCT_NAME", data |-> EmptyData]

\* The fields of the Request that are not set.
Unset(data, fields) == \A f \in fields : data[f] = Undefined

\* The Request of the session fits its dialogue position.
ConsistentWithPosition(session) ==
    /\ session.state = "PRODUCT_NAME" => session.data = EmptyData
    /\ session.state = "CATEGORY" =>
         Unset(session.data, {"category", "quantity", "pincode", "proximity"})
    /\ session.state = "QUANTITY" =>
         Unset(session.data, {"quantity", "pincode", "proximity"})
    /\ session.state = "PINCODE" =>
         /\ Unset(session.data, {"pincode", "proximity"})
         /\ \/ session.data.quantity = Null
            \/ session.data.quantity.t = "number" /\ session.data.quantity.v >= 0
    /\ session.state = "PROXIMITY" =>
         /\ session.data.pincode.t = "string"
         /\ IsAllDigits(session.data.pincode.v) /\ Len(session.data.pincode.v) = 6
         /\ Unset(session.data, {"proximity"})

\* C23: between two messages handled one after the other, the Request of
\* every stored session fits its dialogue position.
RequestFitsDialoguePosition ==
    NoneInFlight =>
        \A a \in DOMAIN sessions :
            sessions[a] # NoSession => ConsistentWithPosition(sessions[a])

\* A handler leaves the await of the index query in this step.
SearchCompletes == \E k \in Slots : hs[k].pc = "query" /\ hs'[k].pc # "query"

\* C24: every step other than the completion of a search (routing a supplier
\* reply, destroying or restarting a session, a dialogue turn, the end of a
\* send) leaves every stored inquiry unchanged and removes none.
InquiryMapChangesOnlyAtSearchCompletion ==
    [][~SearchCompletes => inquiries' = inquiries]_vars

\* A supplier's reply was delivered to the buyer of an inquiry that is still
\* stored.
ReplyDeliveredInquiryKept ==
    /\ Settled
    /\ last.text = "FORWARDED"
    /\ last.id \in DOMAIN inquiries
    /\ sessions[inquiries[last.id].user] = NoSession

\* sub occurs in s, letter case apart.
ContainsIgnoringCase(s, sub) ==
    \E i \in 0..(Len(s) - Len(sub)) :
        \A j \in 1..Len(sub) : LowerChar(s[i + j]) = LowerChar(sub[j])

\* The request of the search names a product.
HasProductName ==
    request.data.product_name.t = "string" /\ request.data.product_name.v # <<>>

\* The catalog name of the record contains the requested product name.
NameContains(m) == ContainsIgnoringCase(m.name, request.data.product_name.v)

\* C25: with a product name in the request, every returned candidate's
\* catalog name contains it, letter case apart, in each proximity branch, and
\* the result is the proximity step applied to exactly the index results
\* whose name contains it; with no product name the proximity step is
\* applied to all the index results.
ReturnedNamesContainProductName ==
    result.t = "returned" =>
        IF HasProductName
        THEN /\ \A j \in 1..Len(result.matches) : NameContains(result.matches[j])
             /\ result.matches =
                  ApplyProximity(SelectSeq(result.response, NameContains), request.data)
        ELSE result.matches = ApplyProximity(result.response, request.data)

\* A nationwide search for 'cL' dropped an index result of another name and
\* returned records whose names hold the letters in another case.
MixedCaseNameMatched ==
    /\ result.t = "returned"
    /\ request.data.product_name = Str(bCl)
    /\ request.data.proximity = Str(kwPan)
    /\ \E i \in 1..Len(result.response) : ~NameContains(result.response[i])
    /\ Len(result.matches) >= 2
    /\ \A j \in 1..Len(result.matches) : ~Includes(result.matches[j].name, bCl)

\* The step belongs to a handler of a message of this address: the handler
\* starts, resumes after an await, or ends.
HandlerStepOf(a) ==
    \/ \E k \in Slots : hs'[k].pc # hs[k].pc /\ (hs[k].from = a \/ hs'[k].from = a)
    \/ last' # last /\ last'.from = a

\* C26: whatever the order in which the messages of different senders arrive
\* and their handlers resume, a step of a handler of one address leaves the
\* session of every other address as it was.
OtherSessionsUntouched ==
    [][\A a \in Senders :
          HandlerStepOf(a) => \A b \in Senders \ {a} : sessions'[b] = sessions[b]]_vars

\* One buyer is in the middle of the dialogue while a search of the other
\* buyer has ended and left that other buyer in END.
OneSearchedOtherMidDialogue ==
    /\ last.from = BuyerA /\ last.count >= 1
    /\ sessions[BuyerA] # NoSession /\ sessions[BuyerA].state = "END"
    /\ sessions[BuyerB] # NoSession /\ sessions[BuyerB].state = "QUANTITY"
    /\ \E k \in Slots : hs[k].pc = "forward"

\* The step is the arrival of a message of this address: no awaiting handler
\* resumes, and a handler of the address starts or ends at once.
ArrivalFrom(a) ==
    /\ \A k \in Slots : hs[k].pc # "idle" => hs'[k].pc = hs[k].pc
    /\ \/ \E k \in Slots : hs[k].pc = "idle" /\ hs'[k].pc # "idle" /\ hs'[k].from = a
       \/ last' # last /\ last'.from = a

\* C27: an address without a session, such as a buyer whose 'no' or 'stop'
\* was handled, gets a session only by the arrival of a message of that
\* address; a handler of an earlier message that resumes and ends puts no
\* session back.
NoSessionUntilNextMessage ==
    [][\A a \in Senders :
          (sessions[a] = NoSession /\ sessions'[a] # NoSession) => ArrivalFrom(a)]_vars

\* The search of a 'pan' answer has ended after a later 'stop' of the same
\* buyer was handled, and the buyer has no session.
SearchEndedAfterStop ==
    /\ NoneInFlight
    /\ last.from = BuyerA /\ last.body = bPan /\ ~last.threw
    /\ last.text \in SearchTexts
    /\ sessions[BuyerA] = NoSession

\* The Request is one of a search by proximity: a six-digit pincode and a
\* preference.
ByProximity(data) ==
    /\ data.pincode.t = "string"
    /\ Len(data.pincode.v) = 6 /\ IsAllDigits(data.pincode.v)
    /\ data.proximity \in {Str(kwSame), Str(kwPan)}

\* The Request is one of a search with the pincode skipped.
PincodeSkipped(data) == data.pincode = Null /\ data.proximity = Undefined

\* C28: every search a handler is in was started with a six-digit pincode
\* and a proximity preference, or with neither (the pincode skipped); the
\* 'first 5 in index order' branch of the proximity step is taken exactly in
\* the second case.
ProximityIffPincode ==
    \A k \in Slots :
        Searching(k) =>
            /\ ByProximity(hs[k].data) \/ PincodeSkipped(hs[k].data)
            /\ PincodeSkipped(hs[k].data)
                 <=> ~(Truthy(hs[k].data.pincode) /\ Truthy(hs[k].data.proximity))

\* A search by proximity is in progress after an earlier search of the same
\* session failed in the embedder and left the session in PROXIMITY.
SearchRetriedInProximity ==
    \E k \in Slots :
        /\ hs[k].pc = "query"
        /\ ByProximity(hs[k].data)
        /\ hs[k].found.state = "PROXIMITY"
        /\ hs[k].found.data.proximity = Str(kwPan)
        /\ hs[k].data.proximity = Str(kwSame)

\* C29: the state of every stored session, and of every session object a
\* handler holds, is one the switch has a case for, and no message is ever
\* answered by the default branch (the generic error reply).
RecognisedStatesOnly ==
    /\ \A a \in Senders :
         sessions[a] # NoSession => sessions[a].state \in DialogueStates
    /\ \A k \in Slots :
         (hs[k].pc # "idle" /\ hs[k].found # NoSession) =>
             hs[k].found.state \in DialogueStates
    /\ last # NoInteraction => last.text # "ERROR"

\* A message that is no greeting found the session in START, where 'yes'
\* after a search had left it, and was answered with the welcome prompt.
StoredStartHandled ==
    /\ Settled
    /\ last.found # NoSession
    /\ last.found.state = "START"
    /\ ~EqualsIgnoringCase(last.body, kwHello)
    /\ last.text = "WELCOME"
    /\ SessionAfter.state = "PRODUCT_NAME"

\* sub is a run of consecutive characters of s.
ContainsText(s, sub) ==
    \E i \in 1..(Len(s) + 1) : \E j \in (i - 1)..Len(s) : SubSeq(s, i, j) = sub

\* The message marks an error that is not retried.
NonRetryable(message) ==
    \/ ContainsText(message, <<"4","0","4">>)
    \/ ContainsText(message, <<"i","n","d","e","x"," ","n","o","t"," ","f","o","u","n","d">>)

\* Attempt i of the call rejected with an error that is retried.
RetryableFailure(i) == retry.log[i].t = "rejected" /\ ~NonRetryable(retry.log[i].v)

\* What holds of a call of retryOperation at each of its steps: the count of
\* invocations, the attempts before the last, and how the call ends.
RetryInvariant ==
    LET n == Len(retry.log)
    IN  /\ retry.calls <= retry.maxAttempts
        /\ retry.calls = n + (IF retry.pc = "operation" THEN 1 ELSE 0)
        /\ \A i \in 1..(n - 1) : RetryableFailure(i)
        /\ retry.pc = "delay" => n >= 1 /\ RetryableFailure(n) /\ n < retry.maxAttempts
        /\ retry.pc = "done" =>
             \/ /\ n = 0 /\ retry.maxAttempts = 0
                /\ retry.outcome = [t |-> "returned", v |-> Undefined]
             \/ /\ n >= 1 /\ retry.log[n].t = "resolved"
                /\ retry.outcome = [t |-> "returned", v |-> retry.log[n].v]
             \/ /\ n >= 1 /\ retry.log[n].t = "rejected"
                /\ retry.outcome = [t |-> "threw", v |-> retry.log[n].v]
                /\ NonRetryable(retry.log[n].v) \/ n = retry.maxAttempts

\* C30: retryOperation invokes the operation at most maxAttempts times; every
\* attempt before the last one made was a retryable failure, so the call
\* stops at the first success, whose result it returns; it throws the error
\* of the last attempt, without another attempt, when that error is not
\* retryable or the attempt was the maxAttempts-th; and after any other
\* failure it waits and invokes the operation once more.
RetryStopsOrRetries ==
    /\ [](retry.pc # "none" => RetryInvariant)
    /\ [][retry.pc = "delay" =>
            retry'.pc = "operation" /\ retry'.calls = retry.calls + 1]_vars

\* With maxAttempts = 3, the first attempt failed with a message that has
\* 'Index not found' with a capital and was retried, and the second failed
\* with a 404 and was thrown at once.
ThrownOnSecondOfThree ==
    /\ retry.pc = "done"
    /\ retry.maxAttempts = 3
    /\ retry.calls = 2
    /\ Len(retry.log) = 2
    /\ retry.log[1] = [t |-> "rejected", v |-> mNotFoundCapital]
    /\ retry.outcome = [t |-> "threw", v |-> m404]

================================================================
